---- MODULE Spec2Model ----
(***************************************************************************)
(* A model of manhwa-cli: the temporary-directory lifecycle of             *)
(* utils/browser.py (registry, background pollers, exit-time and signal    *)
(* reclaim) and the scraper's listing and download functions.              *)
(***************************************************************************)
EXTENDS Integers, Sequences, FiniteSets, TLC

\* ------------------------------------------------------------------ bounds
\* how many chapters the user opens in one run (one temp directory each)
MaxChapters == 2
\* how many SIGINT/SIGTERM signals are delivered in one run
MaxSignals == 1
\* how many <img> elements a chapter page has
MaxImages == 2
\* how many chapter entries, or anchors, a manhwa page has
MaxEntries == 3
\* how many items one search response has
MaxItems == 2
\* the largest `limit` passed to search_manhwa (the smallest is -1)
MaxLimit == 2

\* ------------------------------------------------------------- lifecycle
\* tempfile.mkdtemp gives every chapter-view action a directory of its own
Dirs == 1..MaxChapters
\* platform.system() as the code distinguishes it
Platforms == {"Darwin", "Linux", "Windows"}

VARIABLES
  platform,          \* platform.system()
  temp_directories,  \* browser.py: the global registry (a list)
  disk,              \* the temp directories that exist (os.path.exists)
  held,              \* directories whose PDF an external viewer holds open
  poller,            \* per directory: where its _cleanup_when_viewer_closes thread is
  can_delete,        \* per directory: the poller's local can_delete of its last round
  fg_pc,             \* where the main thread is
  cur_dir,           \* open_chapter's local temp_dir
  cl_ctx,            \* who called cleanup_all_temp_dirs: "handler" or "atexit"
  cl_pc,             \* where cleanup_all_temp_dirs is
  cl_list,           \* its snapshot list(temp_directories)
  cl_i,              \* its loop position in cl_list
  unwind,            \* where a SystemExit raised by the handler lands
  signals,           \* signals delivered so far
  opened,            \* open_chapter calls so far
  reclaims           \* 0, or since the last registration: 1 a call of
                     \* cleanup_all_temp_dirs went through its loop and
                     \* returned, 2 a later call has returned as well

\* the filesystem, the threads, the frame of cleanup_all_temp_dirs
fs_vars == <<disk, held>>
th_vars == <<poller, can_delete>>
cl_vars == <<cl_ctx, cl_pc, cl_list, cl_i>>

lifecycle_vars ==
  <<platform, temp_directories, fs_vars, th_vars, cl_vars, fg_pc, cur_dir,
    unwind, signals, opened, reclaims>>

\* ----------------------------------------------------------------- scraper
VARIABLES
  sc_pc,             \* where the scraper call in progress is ("idle": none)
  image_urls,        \* download_chapter_images: the URLs collected from the page
  img_i,             \* its loop position in image_urls
  images,            \* its list of downloaded payloads
  img_ok,            \* per URL visited so far: did its fetch succeed
  dl_ret,            \* what download_chapter_images returned
  gc_response,       \* get_chapters: what scraper.get(manhwa_url) gave
  gc_ret,            \* what get_chapters returned
  limit,             \* search_manhwa: its argument
  results,           \* its list of records
  sm_log,            \* the outcome of each of its requests so far
  sm_steps,          \* per request so far: the step, the titles its page
                     \* listed and how many records the step appended
  sm_ret,            \* what search_manhwa returned
  chapter_url,       \* get_chapter_url: its argument
  cu_response,       \* what scraper.get(chapter_url) gave
  cu_ret             \* what get_chapter_url returned

dl_vars == <<image_urls, img_i, images, img_ok, dl_ret>>
gc_vars == <<gc_response, gc_ret>>
sm_vars == <<limit, results, sm_log, sm_steps, sm_ret>>
cu_vars == <<chapter_url, cu_response, cu_ret>>
scraper_vars == <<sc_pc, dl_vars, gc_vars, sm_vars, cu_vars>>

\* -------------------------------------------------------------- pdf_viewer
VARIABLES
  pd_pc,             \* where the view_manhwa_as_pdf call in progress is
  pd_images,         \* create_pdf_from_images: the pixel sizes of its images
  pd_idx,            \* its loop position (idx of enumerate)
  pd_log,            \* per image visited so far: how its iteration ended
  pd_pages,          \* the pages of doc: size and the image embedded (0: none)
  pd_dir,            \* temp_dir on disk: "none", "exists" or "removed"
  pd_files,          \* the files inside temp_dir
  pd_ret,            \* what create_pdf_from_images returned
  vw_opened,         \* has the system viewer been started on the document
  vw_ret             \* what view_manhwa_as_pdf returned

pdf_vars == <<pd_pc, pd_images, pd_idx, pd_log, pd_pages, pd_dir, pd_files, pd_ret,
              vw_opened, vw_ret>>

\* ------------------------------------------------------------------ viewer
VARIABLES
  session,           \* the ManhwaViewer session: "none", "open" (in mainloop),
                     \* or how it ended
  zoom_level,        \* self.zoom_level, a float (see Float)
  temp_dir,          \* does self.temp_dir exist on disk
  canvas_width,      \* self.canvas.winfo_width()
  img_size,          \* the native (width, height) of an image of the chapter
  display            \* what load_all_images last made of it: the cap
                     \* (max_display_width), the size before zoom and the
                     \* size it is shown at

viewer_vars == <<session, zoom_level, temp_dir, canvas_width, img_size, display>>

\* ------------------------------------------- the loops taken on their own
VARIABLES
  co_page,           \* download_chapter_images: the chapter page fetched
  co_i,              \* how many of its <img> elements the loop has visited
  co_urls            \* image_urls, as collected so far

loop_vars == <<co_page, co_i, co_urls>>

\* ------------------------------------------------------ the prompts (display)
VARIABLES
  dp_pc,             \* "idle", at the prompt of one of the two functions, "returned"
  dc_chapters,       \* display_chapters: its argument chapters
  current_page,      \* display_chapters: the page shown
  ds_results,        \* display_search_results: its argument results
  selection,         \* what the user entered last
  dp_ret             \* what the function returned

display_vars == <<dp_pc, dc_chapters, current_page, ds_results, selection, dp_ret>>

\* what the functions of one module leave alone: the state of the others
outside_lifecycle == <<scraper_vars, pdf_vars, viewer_vars, loop_vars, display_vars>>
outside_scraper == <<lifecycle_vars, pdf_vars, viewer_vars, loop_vars, display_vars>>
outside_pdf == <<lifecycle_vars, scraper_vars, viewer_vars, loop_vars, display_vars>>
outside_viewer == <<lifecycle_vars, scraper_vars, pdf_vars, loop_vars, display_vars>>
outside_loops == <<lifecycle_vars, scraper_vars, pdf_vars, viewer_vars, display_vars>>
outside_display == <<lifecycle_vars, scraper_vars, pdf_vars, viewer_vars, loop_vars>>

Range(s) == {s[i] : i \in 1..Len(s)}

\* list.remove(x): drops the first occurrence
ListRemove(s, d) ==
  LET i == CHOOSE k \in 1..Len(s) : s[k] = d /\ \A j \in 1..(k - 1) : s[j] # d
  IN  SubSeq(s, 1, i - 1) \o SubSeq(s, i + 1, Len(s))

\* A viewer that holds the PDF makes open(path, 'a+b') and deletion fail only
\* where the platform enforces the lock.
Locked(d) == platform = "Windows" /\ d \in held

\* shutil.rmtree(d): it succeeds (TRUE) only on an existing, unlocked directory,
\* and it may raise OSError (FALSE) in any case.
RmtreeOutcomes(d) == IF d \in disk /\ ~Locked(d) THEN {TRUE, FALSE} ELSE {FALSE}

\* a directory leaves the disk, and with it the PDF a viewer could hold
Remove(d) ==
  /\ disk' = disk \ {d}
  /\ held' = held \ {d}

LifecycleInit ==
  /\ platform \in Platforms
  /\ temp_directories = <<>>
  /\ disk = {}
  /\ held = {}
  /\ poller = [d \in Dirs |-> "none"]
  /\ can_delete = [d \in Dirs |-> "unset"]
  /\ fg_pc = "prompt"
  /\ cur_dir = 0
  /\ cl_ctx = "none"
  /\ cl_pc = "idle"
  /\ cl_list = <<>>
  /\ cl_i = 0
  /\ unwind = "top"
  /\ signals = 0
  /\ opened = 0
  /\ reclaims = 0

\* the process runs: "terminated" is after interpreter exit, "raised" is an
\* exception that left cleanup_all_temp_dirs
Alive == fg_pc \notin {"terminated", "raised"}

\* The main thread moves to `pc`; when the interpreter exits, its daemon
\* threads (the pollers) end with it, wherever they are.
Goto(pc) ==
  /\ fg_pc' = pc
  /\ poller' = IF pc = "terminated" THEN [d \in Dirs |-> "none"] ELSE poller
  /\ can_delete' = IF pc = "terminated" THEN [d \in Dirs |-> "unset"] ELSE can_delete

\* ------------------------------------------------- exceptions and handlers
\* Does an except clause of this kind catch an exception of this class?
\* "Exception" is `except Exception`, "bare" is `except:`, "none" is no try.
CatchesNothing(clause, exc) == FALSE
Catches(clause, exc) ==
  \/ clause = "bare"
  \/ clause = "Exception" /\ exc \notin {"SystemExit", "KeyboardInterrupt"}

\* the try around shutil.rmtree in cleanup_all_temp_dirs
reclaim_clause_missing == "none"
reclaim_clause == "Exception"
\* the tries around the body of _cleanup_when_viewer_closes
poller_clause == "Exception"
\* the try around open_chapter's last-resort webbrowser.open(url)
fallback_clause_missing == "none"
fallback_clause == "bare"

\* Where a SystemExit raised by signal_handler lands, given where the main
\* thread was interrupted: inside open_chapter's last-resort try it is caught
\* by that try's clause; inside the atexit callback it ends that callback; in a
\* handler that is already running it lands where that handler's would;
\* anywhere else it reaches the top and the interpreter exits.
Unwind(pc, ctx, old) ==
  IF pc \in {"cleanup", "sys_exit"} /\ ctx = "handler" THEN old
  ELSE IF pc = "cleanup" /\ ctx = "atexit" THEN "atexit"
  ELSE IF pc = "oc_except" /\ Catches(fallback_clause, "SystemExit") THEN "swallow"
  ELSE "top"

\* ------------------------------------------------ cleanup_all_temp_dirs
\* `reclaims` after one more call of cleanup_all_temp_dirs has returned: 0 while
\* no call has been through the loop since the last registration, 1 when a call
\* that went through the loop returns, 2 once a later call has returned
Returned(n, looped) == IF looped THEN 1 ELSE IF n = 0 THEN 0 ELSE 2

\* where cleanup_all_temp_dirs returns to
ReturnTo(ctx) == IF ctx = "handler" THEN "sys_exit" ELSE "terminated"

\* Entering cleanup_all_temp_dirs from `ctx`: the early return on an empty
\* registry, else the snapshot list(temp_directories) and the loop's start.
CleanupEnter(ctx) ==
  /\ cl_ctx' = ctx
  /\ IF temp_directories = <<>>
       THEN /\ Goto(ReturnTo(ctx))
            /\ cl_pc' = "idle"
            /\ reclaims' = Returned(reclaims, FALSE)
            /\ cl_list' = <<>>
            /\ cl_i' = 0
       ELSE /\ Goto("cleanup")
            /\ cl_pc' = "exists188"
            /\ cl_list' = temp_directories
            /\ cl_i' = 1
            /\ UNCHANGED reclaims

\* the loop moves on to the next directory of the snapshot, or to clear()
CleanupAdvance ==
  /\ cl_i' = cl_i + 1
  /\ cl_pc' = IF cl_i + 1 > Len(cl_list) THEN "clear228" ELSE "exists188"

\* `if os.path.exists(temp_dir):` and, on macOS, the kill of the processes that
\* lsof reports for the PDF (which may or may not make the viewer let go)
ReclaimExists ==
  /\ fg_pc = "cleanup" /\ cl_pc = "exists188"
  /\ LET d == cl_list[cl_i] IN
       IF d \in disk
         THEN /\ cl_pc' = "rmtree222"
              /\ \E let_go \in (IF platform = "Darwin" /\ d \in held
                                  THEN {TRUE, FALSE} ELSE {FALSE}) :
                   held' = IF let_go THEN held \ {d} ELSE held
              /\ UNCHANGED cl_i
         ELSE /\ CleanupAdvance
              /\ UNCHANGED held
  /\ UNCHANGED <<outside_lifecycle, platform, temp_directories, disk, th_vars, fg_pc, cur_dir,
                 cl_ctx, cl_list, unwind, signals, opened, reclaims>>

\* time.sleep(0.5) is over and shutil.rmtree(temp_dir) starts deleting
ReclaimRmtreeBegin ==
  /\ fg_pc = "cleanup" /\ cl_pc = "rmtree222"
  /\ cl_pc' = "in_rmtree222"
  /\ UNCHANGED <<outside_lifecycle, platform, temp_directories, fs_vars, th_vars, fg_pc, cur_dir,
                 cl_ctx, cl_list, cl_i, unwind, signals, opened, reclaims>>

\* shutil.rmtree(temp_dir) ends, inside try/except: a failure is printed and
\* the loop goes on; without the try it would leave the function as an
\* exception
ReclaimRmtreeEnd ==
  /\ fg_pc = "cleanup" /\ cl_pc = "in_rmtree222"
  /\ LET d == cl_list[cl_i] IN
       \E ok \in RmtreeOutcomes(d) :
         IF ok
           THEN /\ Remove(d)
                /\ CleanupAdvance
                /\ UNCHANGED fg_pc
           ELSE /\ UNCHANGED fs_vars
                /\ IF Catches(reclaim_clause, "OSError")
                     THEN CleanupAdvance /\ UNCHANGED fg_pc
                     ELSE fg_pc' = "raised" /\ UNCHANGED <<cl_i, cl_pc>>
  /\ UNCHANGED <<outside_lifecycle, platform, temp_directories, th_vars, cur_dir, cl_ctx,
                 cl_list, unwind, signals, opened, reclaims>>

\* temp_directories.clear()
clear_skipped(lst) == lst
clear(lst) == <<>>

\* the end of cleanup_all_temp_dirs: clear the registry and return
ReclaimClear ==
  /\ fg_pc = "cleanup" /\ cl_pc = "clear228"
  /\ temp_directories' = clear(temp_directories)
  /\ Goto(ReturnTo(cl_ctx))
  /\ cl_pc' = "idle"
  /\ reclaims' = Returned(reclaims, TRUE)
  /\ UNCHANGED <<outside_lifecycle, platform, fs_vars, cur_dir, cl_ctx, cl_list, cl_i, unwind,
                 signals, opened>>

\* ------------------------------------------------------- signal_handler
\* SIGINT or SIGTERM arrives: the handler runs in the main thread, on top of
\* whatever it was doing, and calls cleanup_all_temp_dirs
Signal ==
  /\ Alive /\ signals < MaxSignals
  /\ signals' = signals + 1
  /\ unwind' = Unwind(fg_pc, cl_ctx, unwind)
  /\ CleanupEnter("handler")
  /\ cur_dir' = 0
  /\ UNCHANGED <<outside_lifecycle, platform, temp_directories, fs_vars, opened>>

\* sys.exit(0) in the handler raises SystemExit: at the top the interpreter
\* exits and runs the atexit callback (cleanup_all_temp_dirs again); inside the
\* atexit callback the process just ends; caught by a bare except, open_chapter
\* returns False and main goes on.
SysExit ==
  /\ fg_pc = "sys_exit"
  /\ IF unwind = "top" THEN CleanupEnter("atexit")
     ELSE /\ Goto(IF unwind = "swallow" THEN "returned_False" ELSE "terminated")
          /\ UNCHANGED <<cl_vars, reclaims>>
  /\ unwind' = "top"
  /\ UNCHANGED <<outside_lifecycle, platform, temp_directories, fs_vars, cur_dir, signals, opened>>

\* ----------------------------------------------------------- open_chapter
\* open_chapter returns v: cli.main stands after the call, before it asks
\* whether to continue reading
Returns(v) == IF v THEN "returned_True" ELSE "returned_False"

\* cli.main calls open_chapter for the chapter the user picked
OpenChapterCall ==
  /\ fg_pc = "prompt" /\ opened < MaxChapters
  /\ opened' = opened + 1
  /\ fg_pc' = "oc_try"
  /\ UNCHANGED <<outside_lifecycle, platform, temp_directories, fs_vars, th_vars, cl_vars, cur_dir,
                 unwind, signals,
                 reclaims>>

\* download_chapter_images and view_manhwa_as_pdf inside open_chapter's try:
\* "viewer": the PDF was written to a fresh directory and the system viewer
\* opened it; "failed": no images or (False, None); "raised": an exception
OpenChapterTry ==
  /\ fg_pc = "oc_try"
  /\ \E outcome \in {"viewer", "failed", "raised"} :
       IF outcome = "viewer"
         THEN /\ cur_dir' = opened
              /\ disk' = disk \cup {opened}
              /\ held' = held \cup {opened}
              /\ fg_pc' = "oc_register"
         ELSE /\ fg_pc' = IF outcome = "failed" THEN "oc_fallback" ELSE "oc_except"
              /\ UNCHANGED <<cur_dir, disk, held>>
  /\ UNCHANGED <<outside_lifecycle, platform, temp_directories, th_vars, cl_vars, unwind, signals,
                 opened,
                 reclaims>>

\* where a started thread stands: at time.sleep(10), the first statement of
\* _cleanup_when_viewer_closes
thread_entry_no_grace == "round113"
thread_entry == "sleep108"

\* temp_directories.append(temp_dir); threading.Thread(...).start(); return True
OpenChapterRegister ==
  /\ fg_pc = "oc_register"
  /\ temp_directories' = Append(temp_directories, cur_dir)
  /\ poller' = [poller EXCEPT ![cur_dir] = thread_entry]
  /\ fg_pc' = Returns(TRUE)
  /\ cur_dir' = 0
  /\ reclaims' = 0
  /\ UNCHANGED <<outside_lifecycle, platform, fs_vars, can_delete, cl_vars, unwind, signals, opened>>

\* the browser fallback inside the same try: it returns True, or it raises
OpenChapterFallback ==
  /\ fg_pc = "oc_fallback"
  /\ \E raised \in BOOLEAN : fg_pc' = IF raised THEN "oc_except" ELSE Returns(TRUE)
  /\ UNCHANGED <<outside_lifecycle, platform, temp_directories, fs_vars, th_vars, cl_vars, cur_dir,
                 unwind, signals, opened,
                 reclaims>>

\* the except branch: webbrowser.open(url) in a try with a bare except:
\* open_chapter returns True, or False when webbrowser.open raised
OpenChapterExcept ==
  /\ fg_pc = "oc_except"
  /\ \E raised \in BOOLEAN :
       fg_pc' = IF ~raised THEN Returns(TRUE)
                ELSE IF Catches(fallback_clause, "Exception") THEN Returns(FALSE)
                ELSE "raised"
  /\ UNCHANGED <<outside_lifecycle, platform, temp_directories, fs_vars, th_vars, cl_vars, cur_dir,
                 unwind, signals, opened,
                 reclaims>>

\* cli.main drops what open_chapter returned, and the user chooses to continue
\* reading: back to the chapter prompt
MainConfirm ==
  /\ fg_pc \in {Returns(TRUE), Returns(FALSE)}
  /\ fg_pc' = "prompt"
  /\ UNCHANGED <<outside_lifecycle, platform, temp_directories, fs_vars, th_vars, cl_vars, cur_dir,
                 unwind, signals, opened,
                 reclaims>>

\* main returns (the user cancels or stops reading): the interpreter exits and
\* runs the atexit callback cleanup_all_temp_dirs
MainReturn ==
  /\ fg_pc = "prompt"
  /\ CleanupEnter("atexit")
  /\ UNCHANGED <<outside_lifecycle, platform, temp_directories, fs_vars, cur_dir, unwind, signals,
                 opened>>

\* ------------------------------------------------------------ environment
\* the user closes the external viewer: the PDF is released
ViewerRelease(d) ==
  /\ Alive /\ d \in held
  /\ held' = held \ {d}
  /\ UNCHANGED <<outside_lifecycle, platform, temp_directories, disk, th_vars, cl_vars, fg_pc,
                 cur_dir, unwind, signals, opened,
                 reclaims>>

\* somebody else (the user, a tmp cleaner) removes a temp directory
ExternalDelete(d) ==
  /\ Alive /\ d \in disk /\ ~Locked(d)
  /\ Remove(d)
  /\ UNCHANGED <<outside_lifecycle, platform, temp_directories, th_vars, cl_vars, fg_pc,
                 cur_dir, unwind, signals, opened,
                 reclaims>>

\* ------------------------------------------- _cleanup_when_viewer_closes
\* One daemon thread per registered directory. Its steps are named after the
\* lines of browser.py they stand at.
PollerFrame ==
  UNCHANGED <<outside_lifecycle, platform, cl_vars, fg_pc, cur_dir, unwind, signals, opened,
              reclaims>>

\* where a thread has ended: "done168" after it deleted and deregistered the
\* directory, "done" without deleting it (the directory was not there after
\* the loop, or an except clause printed its warning), "raised" when an
\* exception left the thread
PollerEnded == {"done168", "done", "raised"}

\* the thread of directory d moves to `pc`; its locals go with it when it ends
PollerGoto(d, pc) ==
  /\ poller' = [poller EXCEPT ![d] = pc]
  /\ can_delete' = IF pc \in PollerEnded \cup {"sleep108"}
                     THEN [can_delete EXCEPT ![d] = "unset"]
                     ELSE can_delete

\* an exception inside the thread's try blocks
PollerRaise(d, exc) ==
  PollerGoto(d, IF Catches(poller_clause, exc) THEN "done" ELSE "raised")

\* time.sleep(10): the initial grace delay is over
PollerGrace(d) ==
  /\ Alive /\ poller[d] = "sleep108"
  /\ PollerGoto(d, "round113")
  /\ UNCHANGED <<temp_directories, fs_vars>>
  /\ PollerFrame

\* the probe's verdict: can_delete stays True iff every PDF of the directory
\* could be opened with open(pdf_path, 'a+b')
Probe(d) == ~Locked(d)

\* `if can_delete: break`, else time.sleep(check_interval) and poll again
AfterProbeAlwaysBreak(cd) == "exists143"
AfterProbeNeverBreak(cd) == "wait140"
AfterProbe(cd) == IF cd THEN "exists143" ELSE "wait140"

\* one round of the loop: `if not os.path.exists(temp_dir): break`, then
\* os.listdir and the probe of each PDF
PollerRound(d) ==
  /\ Alive /\ poller[d] = "round113"
  /\ IF d \in disk
       THEN /\ poller' = [poller EXCEPT ![d] = AfterProbe(Probe(d))]
            /\ can_delete' = [can_delete EXCEPT ![d] =
                                IF Probe(d) THEN "True" ELSE "False"]
       ELSE PollerGoto(d, "exists143")
  /\ UNCHANGED <<temp_directories, fs_vars>>
  /\ PollerFrame

\* time.sleep(check_interval) is over: the next round
PollerWait(d) ==
  /\ Alive /\ poller[d] = "wait140"
  /\ PollerGoto(d, "round113")
  /\ UNCHANGED <<temp_directories, fs_vars>>
  /\ PollerFrame

\* after the loop: `if os.path.exists(temp_dir):`; then, on macOS, the lsof
\* check, and elsewhere shutil.rmtree(temp_dir), which starts deleting
PollerFinalExists(d) ==
  /\ Alive /\ poller[d] = "exists143"
  /\ PollerGoto(d, IF d \notin disk THEN "done"
                   ELSE IF platform = "Darwin" THEN "lsof151" ELSE "rmtree164")
  /\ UNCHANGED <<temp_directories, fs_vars>>
  /\ PollerFrame

\* macOS only: lsof on the PDF; if a process still uses it, a new thread is
\* started for the same directory and this one returns; if none does,
\* shutil.rmtree(temp_dir) starts deleting. os.listdir raises when the
\* directory has gone since the check, and the inner except ends the thread.
PollerLsof(d) ==
  /\ Alive /\ poller[d] = "lsof151"
  /\ IF d \notin disk THEN PollerRaise(d, "OSError")
     ELSE PollerGoto(d, IF d \in held THEN thread_entry ELSE "rmtree164")
  /\ UNCHANGED <<temp_directories, fs_vars>>
  /\ PollerFrame

\* shutil.rmtree(temp_dir) ends, in the inner try: a failure is printed and
\* the thread ends, with the directory still registered
PollerRmtreeEnd(d) ==
  /\ Alive /\ poller[d] = "rmtree164"
  /\ \E ok \in RmtreeOutcomes(d) :
       IF ok
         THEN /\ Remove(d)
              /\ PollerGoto(d, "dereg166")
         ELSE /\ PollerRaise(d, "OSError")
              /\ UNCHANGED fs_vars
  /\ UNCHANGED temp_directories
  /\ PollerFrame

\* `if temp_dir in temp_directories: temp_directories.remove(temp_dir)`
PollerDeregister(d) ==
  /\ Alive /\ poller[d] = "dereg166"
  /\ temp_directories' = IF d \in Range(temp_directories)
                           THEN ListRemove(temp_directories, d)
                           ELSE temp_directories
  /\ PollerGoto(d, "done168")
  /\ UNCHANGED fs_vars
  /\ PollerFrame

PollerStep(d) ==
  \/ PollerGrace(d)
  \/ PollerRound(d)
  \/ PollerWait(d)
  \/ PollerFinalExists(d)
  \/ PollerLsof(d)
  \/ PollerRmtreeEnd(d)
  \/ PollerDeregister(d)

\* ------------------------------------------------------ scraper: values
\* what a function handed back: kind "list" with its value, "None", "raised"
\* when an exception left the function, "unset" while it has not returned
NoRet == [kind |-> "unset", val |-> <<>>]
NoneRet == [kind |-> "None", val |-> <<>>]
RaisedRet == [kind |-> "raised", val |-> <<>>]
ListRet(l) == [kind |-> "list", val |-> l]

\* get_chapter_url before it is called: no page fetched, nothing returned
NoPage == [status |-> "none", container |-> "", anchors |-> <<>>]
NoUrl == [kind |-> "unset", val |-> ""]
StrRet(s) == [kind |-> "str", val |-> s]
RaisedUrl == [kind |-> "raised", val |-> ""]

\* element.get(attr) on an element without the attribute
NoAttr == "<no attribute>"
\* a key a record does not have
NoKey == "<no key>"

\* str.strip() on the texts of the pages
Strip(s) ==
  CASE s = " Chapter 1 " -> "Chapter 1"
    [] s = " Jan 1 " -> "Jan 1"
    [] s = "  " -> ""
    [] s = " Solo " -> "Solo"
    [] s = " 4.5 " -> "4.5"
    [] s = " 10K " -> "10K"
    [] s = " n " -> "n"
    [] OTHER -> s

\* str.lower() on the hrefs and texts of the pages
Lower(s) ==
  CASE s = "/m/Chap-2" -> "/m/chap-2"
    [] s = "Chapter 1" -> "chapter 1"
    [] s = "P" -> "p"
    [] OTHER -> s

\* `token in s` for the tokens the code looks for
Contains(token, s) ==
  <<token, s>> \in
    { <<"chapter", "/m/chapter-1">>, <<"chap", "/m/chapter-1">>,
      <<"chap-", "/m/chap-2">>, <<"chap", "/m/chap-2">>,
      <<"chap", "/chap3">>,
      <<"chapter", "chapter 1">>, <<"chap", "chapter 1">>,
      <<"chap", "chap 2">>,
      <<"chapter", "https://cdn/chapter/1.jpg">>,
      <<"reader", "/reader/ch-1">> }

\* a request's outcome: it raised, it answered with an error status, or 200
Statuses == {"raise", "http_error", "ok"}

\* the exception a failed request ends in (raise_for_status included)
RequestException == "RequestException"

\* the finite sequences over S of a length in lens
SeqsOf(S, lens) == UNION {[1..n -> S] : n \in lens}

\* ------------------------------------------- download_chapter_images
\* an <img>: its src, data-src and data-lazy-src attributes ("" when absent)
ImgAttrs == {"", "https://cdn/chapter/1.jpg", "https://cdn/logo.png"}
Imgs == [src : ImgAttrs, data_src : ImgAttrs, data_lazy_src : ImgAttrs]

\* the chapter page: has it a reader container, and the <img> elements the
\* code goes through (the container's, or without one the page's)
ChapterPages ==
  [status : {"ok"}, container : BOOLEAN, imgs : SeqsOf(Imgs, 0..MaxImages)]
    \cup [status : {"raise", "http_error"}, container : {FALSE}, imgs : {<<>>}]

ImgUrlSrcFirst(img) ==
  IF img.src # "" THEN img.src
  ELSE IF img.data_src # "" THEN img.data_src
  ELSE img.data_lazy_src

\* img_url = data_src or data_lazy_src or src
ImgUrl(img) ==
  IF img.data_src # "" THEN img.data_src
  ELSE IF img.data_lazy_src # "" THEN img.data_lazy_src
  ELSE img.src

\* the two collection loops: inside a reader container every non-empty URL,
\* without one only the URLs that look like chapter images
KeepsUrl(container, img_url) ==
  /\ img_url # ""
  /\ container \/ Contains("chapter", img_url) \/ Contains("manga", img_url)
       \/ Contains("comic", img_url)

RECURSIVE CollectUrls(_, _, _)
CollectUrls(page, i, urls) ==
  IF i > Len(page.imgs) THEN urls
  ELSE CollectUrls(page, i + 1,
         IF KeepsUrl(page.container, ImgUrl(page.imgs[i]))
           THEN Append(urls, ImgUrl(page.imgs[i])) ELSE urls)

\* the loops not entered: no page
LoopsIdle ==
  /\ co_page = [status |-> "none", container |-> FALSE, imgs |-> <<>>]
  /\ co_i = 0
  /\ co_urls = <<>>

\* one iteration of `for img in all_images` / `for img in image_elements`
CollectImg ==
  /\ co_i < Len(co_page.imgs)
  /\ co_i' = co_i + 1
  /\ co_urls' = IF KeepsUrl(co_page.container, ImgUrl(co_page.imgs[co_i + 1]))
                  THEN Append(co_urls, ImgUrl(co_page.imgs[co_i + 1]))
                  ELSE co_urls
  /\ UNCHANGED <<co_page, outside_loops>>

\* img_response.content of a successful fetch of url
Payload(url) == [content_of |-> url]

\* the try around one image's fetch, and the one around the whole download
image_clause_missing == "none"
image_clause == "Exception"
download_clause == "Exception"

ScraperIdle ==
  /\ sc_pc = "idle"
  /\ image_urls = <<>>
  /\ img_i = 0
  /\ images = <<>>
  /\ img_ok = <<>>
  /\ dl_ret = NoRet
  /\ gc_response = [status |-> "none", hit |-> 0, later |-> FALSE, items |-> <<>>,
                     links |-> <<>>]
  /\ gc_ret = NoRet
  /\ limit = 0
  /\ results = <<>>
  /\ sm_log = <<>>
  /\ sm_steps = <<>>
  /\ sm_ret = NoRet
  /\ chapter_url = ""
  /\ cu_response = NoPage
  /\ cu_ret = NoUrl

\* an exception in download_chapter_images outside the per-image try
DownloadRaise(exc) ==
  /\ dl_ret' = IF Catches(download_clause, exc) THEN NoneRet ELSE RaisedRet
  /\ sc_pc' = "dl_done"

\* the call, the fetch of the chapter page and the collection of the URLs
DownloadCall ==
  /\ sc_pc = "idle"
  /\ \E page \in ChapterPages :
       IF page.status = "ok"
         THEN /\ image_urls' = CollectUrls(page, 1, <<>>)
              /\ img_i' = 1
              /\ sc_pc' = "dl_loop"
              /\ UNCHANGED dl_ret
         ELSE /\ DownloadRaise(RequestException)
              /\ UNCHANGED <<image_urls, img_i>>
  /\ UNCHANGED <<images, img_ok, gc_vars, cu_vars, sm_vars, outside_scraper>>

\* one turn of `for i, img_url in enumerate(image_urls)`
DownloadImage ==
  /\ sc_pc = "dl_loop" /\ img_i <= Len(image_urls)
  /\ \E ok \in BOOLEAN :
       /\ img_ok' = Append(img_ok, ok)
       /\ IF ok
            THEN /\ images' = Append(images, Payload(image_urls[img_i]))
                 /\ img_i' = img_i + 1
                 /\ UNCHANGED <<sc_pc, dl_ret>>
            ELSE IF Catches(image_clause, RequestException)
              THEN /\ img_i' = img_i + 1
                   /\ UNCHANGED <<images, sc_pc, dl_ret>>
              ELSE /\ DownloadRaise(RequestException)
                   /\ UNCHANGED <<images, img_i>>
  /\ UNCHANGED <<image_urls, gc_vars, cu_vars, sm_vars, outside_scraper>>

\* after the loop: `if not images: return None`, else `return images`
DownloadReturn ==
  /\ sc_pc = "dl_loop" /\ img_i > Len(image_urls)
  /\ dl_ret' = IF images = <<>> THEN NoneRet ELSE ListRet(images)
  /\ sc_pc' = "dl_done"
  /\ UNCHANGED <<image_urls, img_i, images, img_ok, gc_vars, cu_vars, sm_vars,
                 outside_scraper>>

\* ------------------------------------------------------------ get_chapters
chapter_selectors ==
  << ".wp-manga-chapter", ".main.version-chap li", ".version-chap li",
     ".chapter-item", ".chapters li" >>

\* an element a chapter selector matched: has it an <a>, that anchor's href
\* and text, and the text of its date element ("" for none)
EntryHrefs == {NoAttr, "/m/chapter-1", "/m/chapter-2"}
Entries ==
  [a : {TRUE}, href : EntryHrefs, text : {" Chapter 1 "}, date : {"", " Jan 1 "}]
    \cup [a : {FALSE}, href : {NoAttr}, text : {""}, date : {"", " Jan 1 "}]

\* an <a> of the page: its href and its text
Links ==
  [href : {NoAttr, "/about", "/m/chapter-1", "/m/Chap-2", "/chap3"},
   text : {"Home", "Chapter 1", "chap 2"}]

\* The manhwa page: `hit` is the selector that matches something (0: none
\* does), `items` what it matches in document order, `links` the page's
\* anchors, which the code reads only when no selector matched.
\* When `later` holds, every selector after `hit` matches too: it matches
\* LaterItems. A page on which a selector matches may have chapter links too.
LaterItems == <<[a |-> TRUE, href |-> "/m/other", text |-> " Chapter 1 ", date |-> ""]>>
ManhwaPages ==
  [status : {"ok"}, hit : 1..Len(chapter_selectors), later : BOOLEAN,
   items : SeqsOf(Entries, 1..MaxEntries),
   links : {<<>>, <<[href |-> "/chap3", text |-> "Chapter 1"]>>}]
    \cup [status : {"ok"}, hit : {0}, later : {FALSE}, items : {<<>>},
          links : SeqsOf(Links, 0..MaxEntries)]
    \cup [status : {"raise", "http_error"}, hit : {0}, later : {FALSE},
          items : {<<>>}, links : {<<>>}]

\* soup.select(selector)
Select(page, selector) ==
  LET s == CHOOSE i \in 1..Len(chapter_selectors) : chapter_selectors[i] = selector
  IN  IF page.hit > 0 /\ s = page.hit THEN page.items
      ELSE IF page.later /\ s > page.hit THEN LaterItems
      ELSE <<>>

\* the selector loop: the items of the first selector that matches anything
RECURSIVE FirstMatch(_, _)
FirstMatch(page, s) ==
  IF s > Len(chapter_selectors) THEN <<>>
  ELSE IF Select(page, chapter_selectors[s]) # <<>>
    THEN Select(page, chapter_selectors[s])
  ELSE FirstMatch(page, s + 1)

\* the test of the hyperlink pass; link.get('href', '') is '' without href
IsChapterLink(link) ==
  LET href == IF link.href = NoAttr THEN "" ELSE link.href
      text == Strip(link.text)
  IN  \/ Contains("chapter", Lower(href))
      \/ Contains("chap-", Lower(href))
      \/ Contains("chapter", Lower(text))
      \/ Contains("chap", Lower(text))

RECURSIVE FilterLinks(_, _, _)
FilterLinks(all_links, i, chapter_links) ==
  IF i > Len(all_links) THEN chapter_links
  ELSE FilterLinks(all_links, i + 1,
         IF IsChapterLink(all_links[i])
           THEN Append(chapter_links, all_links[i]) ELSE chapter_links)

\* the outcome of a piece of code: it went through with a value, or it raised
Went(v) == [exc |-> "", val |-> v]
Raised(exc) == [exc |-> exc, val |-> <<>>]

\* `for idx, link in enumerate(chapter_links)`: link['href'] raises KeyError
\* on an anchor without href
RECURSIVE FallbackLoop(_, _, _)
FallbackLoop(chapter_links, idx, chapters) ==
  IF idx >= Len(chapter_links) THEN Went(chapters)
  ELSE LET link == chapter_links[idx + 1] IN
    IF link.href = NoAttr THEN Raised("KeyError")
    ELSE FallbackLoop(chapter_links, idx + 1,
           Append(chapters, [index |-> idx + 1,
                             title |-> Strip(link.text),
                             url |-> link.href,
                             release_date |-> "N/A"]))

\* reversed(chapter_items)
Reversed(s) == [i \in 1..Len(s) |-> s[Len(s) + 1 - i]]

\* `for idx, item in enumerate(reversed(chapter_items))`: an item without an
\* <a> adds nothing, chapter_link['href'] raises KeyError without href
RECURSIVE StructuralLoop(_, _, _)
StructuralLoop(rev_items, idx, chapters) ==
  IF idx >= Len(rev_items) THEN Went(chapters)
  ELSE LET item == rev_items[idx + 1] IN
    IF ~item.a THEN StructuralLoop(rev_items, idx + 1, chapters)
    ELSE IF item.href = NoAttr THEN Raised("KeyError")
    ELSE StructuralLoop(rev_items, idx + 1,
           Append(chapters, [index |-> idx + 1,
                             title |-> Strip(item.text),
                             url |-> item.href,
                             release_date |-> IF item.date # ""
                                                THEN Strip(item.date)
                                                ELSE "N/A"]))

\* the body of get_chapters' try on a fetched page
ChaptersOf(page) ==
  LET chapter_items == FirstMatch(page, 1)
      chapter_links == FilterLinks(page.links, 1, <<>>)
  IN  IF chapter_items = <<>> /\ chapter_links # <<>>
        THEN FallbackLoop(chapter_links, 0, <<>>)
        ELSE StructuralLoop(Reversed(chapter_items), 0, <<>>)

\* the try around the whole of get_chapters
chapters_clause_missing == "none"
chapters_clause == "Exception"

\* get_chapters on what the request gave: `except Exception: return []`
get_chapters(response) ==
  LET out == IF response.status = "ok" THEN ChaptersOf(response)
             ELSE Raised(RequestException)
  IN  IF out.exc = "" THEN ListRet(out.val)
      ELSE IF Catches(chapters_clause, out.exc) THEN ListRet(<<>>)
      ELSE RaisedRet

GetChapters ==
  /\ sc_pc = "idle"
  /\ \E response \in ManhwaPages :
       /\ gc_response' = response
       /\ gc_ret' = get_chapters(response)
  /\ sc_pc' = "gc_done"
  /\ UNCHANGED <<dl_vars, sm_vars, cu_vars, outside_scraper>>

\* --------------------------------------------------------- get_chapter_url
\* how many <a> elements a chapter page has at most
MaxAnchors == 2

\* the chapter URLs get_chapter_url is called with
ChapterUrls == {"/m/chapter-1", "/m/chap-2"}

\* the <a> elements of a chapter page: a reading-mode link with and without
\* an href, a link whose href contains "reader", and an ordinary link
Anchors ==
  { [class |-> "reading-mode", href |-> "/read/ch-1"],
    [class |-> "reading-mode", href |-> NoAttr],
    [class |-> "", href |-> "/reader/ch-1"],
    [class |-> "", href |-> "/m/chapter-1"] }

\* the element a chapter page may have as its reader container
Containers == {"", "#reader-content", ".reading-content"}

\* what scraper.get(chapter_url) gives: it raises (a timeout included), it
\* answers with a status other than 200, or it answers 200 with a page
ReaderPages ==
  {[status |-> s, container |-> "", anchors |-> <<>>] : s \in Statuses \ {"ok"}}
    \cup {[status |-> "ok", container |-> c, anchors |-> a] :
            c \in Containers, a \in SeqsOf(Anchors, 0..MaxAnchors)}

\* soup.select_one(selector) over the <a> elements, in document order; None
\* is the element NoAnchor
NoAnchor == [class |-> "<None>", href |-> NoAttr]
RECURSIVE SelectOneFrom(_, _, _)
SelectOneFrom(anchors, selector, i) ==
  IF i > Len(anchors) THEN NoAnchor
  ELSE IF \/ selector = "a.reading-mode" /\ anchors[i].class = "reading-mode"
          \/ selector = "a[href*=reader]" /\ Contains("reader", anchors[i].href)
    THEN anchors[i]
  ELSE SelectOneFrom(anchors, selector, i + 1)
select_one(anchors, selector) == SelectOneFrom(anchors, selector, 1)

\* reader_container: `select_one('#reader-content') or
\* select_one('.reading-content')`, as a truth value
reader_container(page) == page.container \in {"#reader-content", ".reading-content"}

\* reader_link: `select_one('a.reading-mode') or select_one('a[href*="reader"]')`
reader_link(page) ==
  IF select_one(page.anchors, "a.reading-mode") # NoAnchor
    THEN select_one(page.anchors, "a.reading-mode")
  ELSE select_one(page.anchors, "a[href*=reader]")

\* the branch on status 200: the link is looked for inside `if reader_container:`
ReaderUrlOf(url, page) ==
  IF /\ reader_container(page)
     /\ reader_link(page) # NoAnchor
     /\ reader_link(page).href # NoAttr
    THEN reader_link(page).href
  ELSE url

\* the clause of the try around the whole of get_chapter_url
chapter_url_clause_missing == "none"
chapter_url_clause == "Exception"

\* get_chapter_url on what the request gave: `except Exception: return chapter_url`
get_chapter_url(url, response) ==
  IF response.status = "ok" THEN StrRet(ReaderUrlOf(url, response))
  ELSE IF response.status = "http_error" THEN StrRet(url)
  ELSE IF Catches(chapter_url_clause, RequestException) THEN StrRet(url)
  ELSE RaisedUrl

GetChapterUrl ==
  /\ sc_pc = "idle"
  /\ \E url \in ChapterUrls, response \in ReaderPages :
       /\ chapter_url' = url
       /\ cu_response' = response
       /\ cu_ret' = get_chapter_url(url, response)
  /\ sc_pc' = "cu_done"
  /\ UNCHANGED <<dl_vars, gc_vars, sm_vars, outside_scraper>>

\* ----------------------------------------------------------- search_manhwa
\* a .page-item-detail.manga element: has it a title link, that link's text
\* and href, has it a rating element, has it a views element
SearchItems ==
  [title_el : {TRUE}, text : {"  ", " Solo ", "Tower"},
   href : {NoAttr, "/manga/solo"}, rating_el : BOOLEAN, views_el : BOOLEAN]
    \cup [title_el : {FALSE}, text : {""}, href : {NoAttr},
          rating_el : {FALSE}, views_el : {FALSE}]

\* what one request of search_manhwa gives: on status 200 a page, with or
\* without the .page-listing-item container, and its items
SearchResponses ==
  [status : {"ok"}, container : BOOLEAN, items : SeqsOf(SearchItems, 0..MaxItems)]
    \cup [status : {"raise", "http_error"}, container : {FALSE}, items : {<<>>}]

\* the `limit` arguments
Limits == (0 - 1)..MaxLimit

\* the record built from an item; title_el.get('href') is None without href,
\* and only the container branch gives its records a 'views' key
SearchRecord(item, with_views) ==
  [title |-> Strip(item.text),
   url |-> IF item.href = NoAttr THEN "None" ELSE item.href,
   rating |-> IF item.rating_el THEN Strip(" 4.5 ") ELSE "N/A",
   views |-> IF ~with_views THEN NoKey
             ELSE IF item.views_el THEN Strip(" 10K ") ELSE "N/A"]

\* `for item in manga_items`: a record is appended for an item with a title
\* link unless a record with that title is there already
AlreadyListedNever(res, title) == FALSE
\* any(r.get('title') == title for r in results)
AlreadyListed(res, title) == \E k \in 1..Len(res) : res[k].title = title

RECURSIVE ExtractItems(_, _, _, _)
ExtractItems(items, i, res, with_views) ==
  IF i > Len(items) THEN res
  ELSE LET item == items[i] IN
    ExtractItems(items, i + 1,
      IF item.title_el /\ ~AlreadyListed(res, Strip(item.text))
        THEN Append(res, SearchRecord(item, with_views)) ELSE res,
      with_views)

\* the titles of the items of a page that have a title link, in page order
RECURSIVE TitlesOf(_, _)
TitlesOf(items, i) ==
  IF i > Len(items) THEN <<>>
  ELSE (IF items[i].title_el THEN <<Strip(items[i].text)>> ELSE <<>>)
         \o TitlesOf(items, i + 1)

\* what a step of search_manhwa saw and did, for the record
StepRecord(step, response, before, after) ==
  [step |-> step, titles |-> TitlesOf(response.items, 1),
   added |-> Len(after) - Len(before)]

\* results[:limit]
Slice(s, n) ==
  IF n >= 0 THEN SubSeq(s, 1, IF n < Len(s) THEN n ELSE Len(s))
  ELSE SubSeq(s, 1, IF Len(s) + n > 0 THEN Len(s) + n ELSE 0)

\* the try around the page requests, the one around the AJAX request, and the
\* one around the whole of search_manhwa
direct_clause == "Exception"
api_clause == "Exception"
search_clause == "Exception"

\* an exception in a request of search_manhwa under the try `clause`: caught
\* there the function goes on at `next`; caught by the outer try it returns
\* []; caught nowhere it leaves the function
SearchRaise(clause, exc, next) ==
  IF Catches(clause, exc)
    THEN sc_pc' = next /\ UNCHANGED sm_ret
  ELSE /\ sc_pc' = "sm_done"
       /\ sm_ret' = IF Catches(search_clause, exc) THEN ListRet(<<>>)
                    ELSE RaisedRet

\* after the page requests: `if not results:` the AJAX request, else return
AfterDirectAlwaysApi(res) == "sm_api"
AfterDirect(res) == IF res = <<>> THEN "sm_api" ELSE "sm_return"

SearchCall ==
  /\ sc_pc = "idle"
  /\ \E lim \in Limits : limit' = lim
  /\ sc_pc' = "sm_primary"
  /\ UNCHANGED <<results, sm_log, sm_steps, sm_ret, dl_vars, gc_vars, cu_vars, outside_scraper>>

\* the request of /search/<query> and the extraction from its page
SearchPrimary ==
  /\ sc_pc = "sm_primary"
  /\ \E response \in SearchResponses :
       /\ sm_log' = Append(sm_log, response.status)
       /\ CASE response.status = "raise" ->
                 /\ SearchRaise(direct_clause, RequestException, AfterDirect(results))
                 /\ UNCHANGED results
            [] response.status = "http_error" ->
                 /\ sc_pc' = AfterDirect(results)
                 /\ UNCHANGED <<results, sm_ret>>
            [] response.status = "ok" ->
                 /\ results' = ExtractItems(response.items, 1, results,
                                            response.container)
                 /\ sc_pc' = IF results' = <<>> THEN "sm_alt" ELSE "sm_return"
                 /\ UNCHANGED sm_ret
       /\ sm_steps' = Append(sm_steps, StepRecord("primary", response, results, results'))
  /\ UNCHANGED <<limit, dl_vars, gc_vars, cu_vars, outside_scraper>>

\* the request of /?s=<query>&post_type=wp-manga, in the same try
SearchAlternate ==
  /\ sc_pc = "sm_alt"
  /\ \E response \in SearchResponses :
       /\ sm_log' = Append(sm_log, response.status)
       /\ CASE response.status = "raise" ->
                 /\ SearchRaise(direct_clause, RequestException, AfterDirect(results))
                 /\ UNCHANGED results
            [] response.status = "http_error" ->
                 /\ sc_pc' = AfterDirect(results)
                 /\ UNCHANGED <<results, sm_ret>>
            [] response.status = "ok" ->
                 /\ results' = ExtractItems(response.items, 1, results, FALSE)
                 /\ sc_pc' = AfterDirect(results')
                 /\ UNCHANGED sm_ret
       /\ sm_steps' = Append(sm_steps, StepRecord("alternate", response, results, results'))
  /\ UNCHANGED <<limit, dl_vars, gc_vars, cu_vars, outside_scraper>>

\* the POST to admin-ajax.php, in a try of its own
SearchApi ==
  /\ sc_pc = "sm_api"
  /\ \E response \in SearchResponses :
       /\ sm_log' = Append(sm_log, response.status)
       /\ CASE response.status = "raise" ->
                 /\ SearchRaise(api_clause, RequestException, "sm_return")
                 /\ UNCHANGED results
            [] response.status = "http_error" ->
                 /\ sc_pc' = "sm_return"
                 /\ UNCHANGED <<results, sm_ret>>
            [] response.status = "ok" ->
                 /\ results' = ExtractItems(response.items, 1, results, FALSE)
                 /\ sc_pc' = "sm_return"
                 /\ UNCHANGED sm_ret
       /\ sm_steps' = Append(sm_steps, StepRecord("api", response, results, results'))
  /\ UNCHANGED <<limit, dl_vars, gc_vars, cu_vars, outside_scraper>>

\* `if results: return results[:limit]`, else `return []`
SearchReturn ==
  /\ sc_pc = "sm_return"
  /\ sm_ret' = ListRet(IF results # <<>> THEN Slice(results, limit) ELSE <<>>)
  /\ sc_pc' = "sm_done"
  /\ UNCHANGED <<limit, results, sm_log, sm_steps, dl_vars, gc_vars, cu_vars, outside_scraper>>

\* the caller takes what the function returned and goes on
CallerResumes ==
  /\ sc_pc \in {"dl_done", "gc_done", "sm_done", "cu_done"}
  /\ dl_ret.kind # "raised" /\ gc_ret.kind # "raised" /\ sm_ret.kind # "raised"
  /\ cu_ret.kind # "raised"
  /\ sc_pc' = "idle"
  /\ image_urls' = <<>>
  /\ img_i' = 0
  /\ images' = <<>>
  /\ img_ok' = <<>>
  /\ dl_ret' = NoRet
  /\ gc_response' = [status |-> "none", hit |-> 0, later |-> FALSE, items |-> <<>>,
                     links |-> <<>>]
  /\ gc_ret' = NoRet
  /\ limit' = 0
  /\ results' = <<>>
  /\ sm_log' = <<>>
  /\ sm_steps' = <<>>
  /\ sm_ret' = NoRet
  /\ chapter_url' = ""
  /\ cu_response' = NoPage
  /\ cu_ret' = NoUrl
  /\ UNCHANGED outside_scraper

ScraperNext ==
  \/ DownloadCall
  \/ DownloadImage
  \/ DownloadReturn
  \/ GetChapters
  \/ GetChapterUrl
  \/ SearchCall
  \/ SearchPrimary
  \/ SearchAlternate
  \/ SearchApi
  \/ SearchReturn
  \/ CallerResumes

\* ------------------------------------------------- create_pdf_from_images
\* the pixel sizes (width, height) the images of a chapter have
Sizes == {<<800, 1200>>, <<720, 1000>>, <<250, 400>>, <<7, 21>>}

\* how one iteration of the image loop ends: Image.open raises, pil_img.save
\* raises, page.insert_image raises, os.remove raises, or nothing raises
ImageOutcomes == {"open", "save", "insert_image", "remove", "ok"}

\* the files of temp_dir
TempImg(idx) == <<"temp_img", idx>>
PdfFile == <<"pdf", 0>>
MarkerFile == <<"marker", 0>>

PdfIdle ==
  /\ pd_pc = "idle"
  /\ pd_images = <<>>
  /\ pd_idx = 0
  /\ pd_log = <<>>
  /\ pd_pages = <<>>
  /\ pd_dir = "none"
  /\ pd_files = {}
  /\ pd_ret = "unset"
  /\ vw_opened = FALSE
  /\ vw_ret = "unset"

\* shutil.rmtree(temp_dir) went through without raising: what is left
rmtree_skipped(dir, files) == [dir |-> dir, files |-> files]
rmtree(dir, files) == [dir |-> "removed", files |-> {}]

\* view_manhwa_as_pdf calls create_pdf_from_images: tempfile.mkdtemp and
\* fitz.open; when mkdtemp raises, temp_dir is not in locals(); when
\* fitz.open raises, the directory is there
CreatePdfCall ==
  /\ pd_pc = "idle"
  /\ \E imgs \in SeqsOf(Sizes, 0..MaxImages) : pd_images' = imgs
  /\ \/ pd_dir' = "exists" /\ pd_pc' = "loop" /\ pd_ret' = pd_ret
     \/ pd_dir' = pd_dir /\ pd_pc' = "created" /\ pd_ret' = "none"
     \/ pd_dir' = "exists" /\ pd_pc' = "except" /\ pd_ret' = pd_ret
  /\ UNCHANGED <<pd_idx, pd_log, pd_pages, pd_files, vw_opened, vw_ret, outside_pdf>>

\* one iteration of `for idx, img_data in enumerate(images)`: the temporary
\* JPEG is written, the page is created, the image is inserted, the JPEG is
\* removed; `except Exception` ends the iteration wherever it raised
CreatePdfImage ==
  /\ pd_pc = "loop"
  /\ pd_idx < Len(pd_images)
  /\ \E outcome \in ImageOutcomes :
       /\ pd_log' = Append(pd_log, outcome)
       /\ pd_pages' =
            IF outcome \in {"open", "save"} THEN pd_pages
            ELSE Append(pd_pages,
                        [width |-> pd_images[pd_idx + 1][1],
                         height |-> pd_images[pd_idx + 1][2],
                         image |-> IF outcome = "insert_image" THEN 0 ELSE pd_idx + 1])
       /\ pd_files' =
            IF outcome \in {"insert_image", "remove"}
              THEN pd_files \cup {TempImg(pd_idx)}
            ELSE pd_files
  /\ pd_idx' = pd_idx + 1
  /\ UNCHANGED <<pd_pc, pd_images, pd_dir, pd_ret, vw_opened, vw_ret, outside_pdf>>

\* doc.set_metadata and doc.save(pdf_path): save raises ValueError on a
\* document of zero pages, and may raise on any other
CreatePdfSave ==
  /\ pd_pc = "loop"
  /\ pd_idx = Len(pd_images)
  /\ \/ /\ pd_pages # <<>>
        /\ pd_files' = pd_files \cup {PdfFile}
        /\ pd_ret' = "path"
        /\ pd_pc' = "created"
     \/ /\ pd_pc' = "except"
        /\ UNCHANGED <<pd_files, pd_ret>>
  /\ UNCHANGED <<pd_images, pd_idx, pd_log, pd_pages, pd_dir, vw_opened, vw_ret,
                 outside_pdf>>

\* the outer `except Exception`: shutil.rmtree(temp_dir), outside any try,
\* then `return None, None`
CreatePdfExcept ==
  /\ pd_pc = "except"
  /\ \/ /\ pd_dir' = rmtree(pd_dir, pd_files).dir
        /\ pd_files' = rmtree(pd_dir, pd_files).files
        /\ pd_ret' = "none"
     \/ pd_ret' = "raised" /\ UNCHANGED <<pd_dir, pd_files>>
  /\ pd_pc' = "created"
  /\ UNCHANGED <<pd_images, pd_idx, pd_log, pd_pages, vw_opened, vw_ret, outside_pdf>>

\* view_manhwa_as_pdf after create_pdf_from_images has returned: the marker
\* file (its failure is ignored), open_pdf_with_system_viewer (False when it
\* raised), and on failure shutil.rmtree(temp_dir), outside any try
ViewManhwaAsPdf ==
  /\ pd_pc = "created"
  /\ pd_pc' = "viewed"
  /\ CASE pd_ret = "raised" ->
            vw_ret' = "raised" /\ UNCHANGED <<pd_dir, pd_files, vw_opened>>
       [] pd_ret = "none" ->
            vw_ret' = "False" /\ UNCHANGED <<pd_dir, pd_files, vw_opened>>
       [] pd_ret = "path" ->
            \E marker \in SUBSET {MarkerFile} :
              \/ /\ vw_opened' = TRUE
                 /\ vw_ret' = "True"
                 /\ pd_files' = pd_files \cup marker
                 /\ pd_dir' = pd_dir
              \/ /\ vw_opened' = FALSE
                 /\ \/ /\ pd_dir' = rmtree(pd_dir, pd_files \cup marker).dir
                       /\ pd_files' = rmtree(pd_dir, pd_files \cup marker).files
                       /\ vw_ret' = "False"
                    \/ /\ vw_ret' = "raised"
                       /\ pd_files' = pd_files \cup marker
                       /\ pd_dir' = pd_dir
  /\ UNCHANGED <<pd_images, pd_idx, pd_log, pd_pages, pd_ret, outside_pdf>>

PdfNext ==
  \/ CreatePdfCall
  \/ CreatePdfImage
  \/ CreatePdfSave
  \/ CreatePdfExcept
  \/ ViewManhwaAsPdf

\* ------------------------------------------------------------ ManhwaViewer
\* A float of the viewer is the pair <<t, d>> that stands for the number
\* (t * Tenth + d) / 2^55, where Tenth = 3602879701896397 is the double 0.1
\* times 2^55: t counts the steps of 0.1 added up, d is the rounding error
\* accumulated. Tenth32 is Tenth modulo 32.
Tenth32 == 13
zoom_step == <<1, 0>>
min_zoom == <<5, 0 - 1>>
max_zoom == <<20, 0 - 4>>
InitialZoom == <<10, 0 - 2>>

\* a < b on floats: d is far smaller than Tenth
Less(a, b) == a[1] < b[1] \/ (a[1] = b[1] /\ a[2] < b[2])

\* the spacing of the doubles around x, in units of 2^-55
Ulp(x) ==
  IF Less(x, min_zoom) THEN 2
  ELSE IF Less(x, InitialZoom) THEN 4
  ELSE IF Less(x, max_zoom) THEN 8
  ELSE 16

\* the double nearest to the real x, ties to the even mantissa
Float(x) ==
  LET r == (x[1] * Tenth32 + x[2] + 3200) % (2 * Ulp(x))
      low == r % Ulp(x)
      up == 2 * low > Ulp(x) \/ (2 * low = Ulp(x) /\ r >= Ulp(x))
  IN  <<x[1], x[2] - low + (IF up THEN Ulp(x) ELSE 0)>>

\* ManhwaViewer.zoom_in: `+=` in double arithmetic, then min with max_zoom
zoom_in(z) ==
  IF Less(z, max_zoom)
    THEN LET sum == Float(<<z[1] + zoom_step[1], z[2] + zoom_step[2]>>)
         IN  IF Less(max_zoom, sum) THEN max_zoom ELSE sum
  ELSE z

\* ManhwaViewer.zoom_out: `-=` in double arithmetic, then max with min_zoom
zoom_out(z) ==
  IF Less(min_zoom, z)
    THEN LET diff == Float(<<z[1] - zoom_step[1], z[2] - zoom_step[2]>>)
         IN  IF Less(diff, min_zoom) THEN min_zoom ELSE diff
  ELSE z

\* the widths of the canvas: 1 before the window is mapped, then that of a
\* window at its minimum size (root.minsize(600, 800)), at its initial size
\* ("800x1000") and in fullscreen, less the scrollbar
CanvasWidths == {1, 580, 780, 1920}

\* max_display_width = min(window_width, 1000)
max_display_width(width) ==
  LET window_width == IF width - 30 < 100 THEN 700 ELSE width - 30
  IN  IF window_width < 1000 THEN window_width ELSE 1000

\* int(orig_height * scale_factor) with scale_factor = target / orig_width,
\* both in double arithmetic: one below the exact quotient where the rounded
\* product falls short of it
Scaled(orig_height, target, orig_width) ==
  (orig_height * target) \div orig_width
    - (IF <<orig_height, target, orig_width>> \in {<<21, 300, 7>>} THEN 1 ELSE 0)

\* new_width, new_height: scaled down to the cap, up to 300, or as they are
new_size_native(orig, cap) == orig
new_size(orig, cap) ==
  IF orig[1] > cap THEN <<cap, Scaled(orig[2], cap, orig[1])>>
  ELSE IF orig[1] < 300 THEN <<300, Scaled(orig[2], 300, orig[1])>>
  ELSE orig

\* the least power of two (from p on) that is at least q
RECURSIVE CeilPow2(_, _)
CeilPow2(q, p) == IF p >= q THEN p ELSE CeilPow2(q, 2 * p)

\* int(n * self.zoom_level) in double arithmetic. The double <<t, d>> is
\* t/10 + (2t + 10d) / (10 * 2^55). When n * t / 10 is a whole number q and
\* the double is below t/10, the product is rounded up to q if it is within
\* half the spacing of the doubles below q, and truncated to q - 1 otherwise.
Zoomed(n, z) ==
  LET q == (n * z[1]) \div 10
      e == 2 * z[1] + 10 * z[2]
  IN  IF (n * z[1]) % 10 # 0 \/ e >= 0 \/ q = 0 THEN q
      ELSE IF n * (0 - e) <= 20 * CeilPow2(q, 1) THEN q
      ELSE q - 1

\* ManhwaViewer.load_all_images for one image
load_all_images(orig, width, z) ==
  LET new == new_size(orig, max_display_width(width))
  IN  [cap |-> max_display_width(width), new |-> new,
       final |-> <<Zoomed(new[1], z), Zoomed(new[2], z)>>]

ViewerIdle ==
  /\ session = "none"
  /\ zoom_level = InitialZoom
  /\ temp_dir = FALSE
  /\ canvas_width = 1
  /\ img_size = <<0, 0>>
  /\ display = [cap |-> 0, new |-> <<0, 0>>, final |-> <<0, 0>>]

\* open_chapter_in_viewer: ManhwaViewer(...) creates the directory, then the
\* window; when tk.Tk() or a later line of __init__ raises, the function's
\* `except Exception` returns False. Otherwise viewer.start() enters mainloop.
\* __init__ ends with load_all_images(), before the window is mapped.
ViewerOpen ==
  /\ session = "none"
  /\ temp_dir' = TRUE
  /\ \E size \in Sizes :
       /\ img_size' = size
       /\ \/ /\ session' = "open"
             /\ display' = load_all_images(size, canvas_width, zoom_level)
          \/ /\ session' = "init_raised"
             /\ display' = display
  /\ UNCHANGED <<zoom_level, canvas_width, outside_viewer>>

\* zoom_in and zoom_out reload the images when they changed the level
ZoomIn ==
  /\ session = "open"
  /\ zoom_level' = zoom_in(zoom_level)
  /\ display' = IF Less(zoom_level, max_zoom)
                  THEN load_all_images(img_size, canvas_width, zoom_level')
                  ELSE display
  /\ UNCHANGED <<session, temp_dir, canvas_width, img_size, outside_viewer>>

ZoomOut ==
  /\ session = "open"
  /\ zoom_level' = zoom_out(zoom_level)
  /\ display' = IF Less(min_zoom, zoom_level)
                  THEN load_all_images(img_size, canvas_width, zoom_level')
                  ELSE display
  /\ UNCHANGED <<session, temp_dir, canvas_width, img_size, outside_viewer>>

\* the window is mapped or resized by the user: <Configure> only re-centers
\* the content, the images are not reloaded
CanvasConfigure ==
  /\ session = "open"
  /\ canvas_width' \in CanvasWidths \ {1}
  /\ UNCHANGED <<session, zoom_level, temp_dir, img_size, display, outside_viewer>>

\* _toggle_fullscreen: the window changes size, load_all_images runs 200 ms
\* later
ToggleFullscreen ==
  /\ session = "open"
  /\ canvas_width' \in CanvasWidths \ {1}
  /\ display' = load_all_images(img_size, canvas_width', zoom_level)
  /\ UNCHANGED <<session, zoom_level, temp_dir, img_size, outside_viewer>>

\* ManhwaViewer.close (the Close button, Escape): root.destroy(), then
\* shutil.rmtree under `except Exception`, which only prints
ViewerClose ==
  /\ session = "open"
  /\ session' = "closed"
  /\ temp_dir' \in {FALSE, temp_dir}
  /\ UNCHANGED <<zoom_level, canvas_width, img_size, display, outside_viewer>>

\* the window is closed through the window manager: no WM_DELETE_WINDOW
\* handler is installed, Tk destroys the window and mainloop returns
WindowClosed ==
  /\ session = "open"
  /\ session' = "window_closed"
  /\ UNCHANGED <<zoom_level, temp_dir, canvas_width, img_size, display, outside_viewer>>

\* the process exits or is interrupted inside mainloop: the module registers
\* no atexit callback and no signal handler
ProcessExit ==
  /\ session = "open"
  /\ session' = "process_exit"
  /\ UNCHANGED <<zoom_level, temp_dir, canvas_width, img_size, display, outside_viewer>>

ViewerNext ==
  \/ ViewerOpen
  \/ ZoomIn
  \/ ZoomOut
  \/ CanvasConfigure
  \/ ToggleFullscreen
  \/ ViewerClose
  \/ WindowClosed
  \/ ProcessExit

\* ------------------------------------------------------------- display.py
chapters_per_page == 20

\* lengths of chapter lists that fill one page, two pages and three
LongLengths == {chapters_per_page, chapters_per_page + 1, 2 * chapters_per_page + 1}

\* what get_chapters returns for a page of n entries that all have a link
LongList(n) ==
  [i \in 1..n |-> [index |-> i, title |-> "Chapter 1", url |-> "/m/chapter-1",
                   release_date |-> "N/A"]]

\* the lists cli.main hands to display_chapters: what get_chapters returned
\* (here for the pages on which the first chapter selector matches), when it
\* is not empty
ChapterLists ==
  ({get_chapters(page).val :
      page \in {m \in ManhwaPages : m.hit = 1 /\ ~m.later /\ m.links = <<>>}} \ {<<>>})
    \cup {LongList(n) : n \in LongLengths}

\* the lists cli.main hands to display_search_results
ResultLists == SeqsOf({"Solo"}, 1..MaxItems)

\* the numbers a user may type: up to one past the longest list
Numbers == (0 - 1)..(2 * chapters_per_page + 2)

\* what the user may enter at a prompt
Selections == {"0", "00", "p", "n", "P", " n ", "abc", ""} \cup {ToString(k) : k \in Numbers}

\* int(selection) for everything that may be entered: the set is empty when
\* int raises ValueError
IntTable ==
  [s \in {Lower(Strip(entered)) : entered \in Selections} |->
     {k \in Numbers : ToString(k) = s} \cup (IF s = "00" THEN {0} ELSE {})]
int(s) == IntTable[s]

\* what a function returned: nothing yet, None, or an index
NoIndex == [kind |-> "unset", val |-> 0]
NoneIndex == [kind |-> "None", val |-> 0]
IndexRet(i) == [kind |-> "int", val |-> i]

total_pages(chapters) == (Len(chapters) + chapters_per_page - 1) \div chapters_per_page

\* the page after a navigation option: "p" and "n" move only inside 1..total
next_page_unguarded(sel, page, total) ==
  IF sel = "p" THEN page - 1 ELSE IF sel = "n" THEN page + 1 ELSE page
next_page(sel, page, total) ==
  IF sel = "p" /\ page > 1 THEN page - 1
  ELSE IF sel = "n" /\ page < total THEN page + 1
  ELSE page

\* one round of display_chapters' loop on the stripped, lowered input: where
\* the function is afterwards, the page, and what it returned
display_chapters(sel, chapters, page) ==
  LET again == [pc |-> "chapters_prompt", page |-> page, ret |-> NoIndex]
      moved == next_page(sel, page, total_pages(chapters))
  IN  IF sel = "0" THEN [pc |-> "returned", page |-> page, ret |-> NoneIndex]
      ELSE IF moved # page THEN [again EXCEPT !.page = moved]
      ELSE IF int(sel) = {} THEN again
      ELSE LET chapter_idx == (CHOOSE k \in int(sel) : TRUE) - 1
           IN  IF 0 <= chapter_idx /\ chapter_idx < Len(chapters)
                 THEN [pc |-> "returned", page |-> page, ret |-> IndexRet(chapter_idx)]
               ELSE again

\* one call of display_search_results on the number IntPrompt.ask returned;
\* the recursive call on an invalid number shows the same table again
display_search_results(number, result_list) ==
  IF number = 0 THEN [pc |-> "returned", ret |-> NoneIndex]
  ELSE IF 1 <= number /\ number <= Len(result_list)
    THEN [pc |-> "returned", ret |-> IndexRet(number - 1)]
  ELSE [pc |-> "search_prompt", ret |-> NoIndex]

DisplayIdle ==
  /\ dp_pc = "idle"
  /\ dc_chapters = <<>>
  /\ current_page = 0
  /\ ds_results = <<>>
  /\ selection = ""
  /\ dp_ret = NoIndex

\* cli.main calls display_chapters(chapters) on a list that is not empty
DisplayChaptersCall ==
  /\ dp_pc = "idle"
  /\ \E chapters \in ChapterLists : dc_chapters' = chapters
  /\ current_page' = 1
  /\ dp_pc' = "chapters_prompt"
  /\ UNCHANGED <<ds_results, selection, dp_ret, outside_display>>

\* the table is shown and console.input(...).strip().lower() is read
DisplayChaptersPrompt ==
  /\ dp_pc = "chapters_prompt"
  /\ \E entered \in Selections :
       LET out == display_chapters(Lower(Strip(entered)), dc_chapters, current_page)
       IN  /\ selection' = Lower(Strip(entered))
           /\ dp_pc' = out.pc
           /\ current_page' = out.page
           /\ dp_ret' = out.ret
  /\ UNCHANGED <<dc_chapters, ds_results, outside_display>>

\* cli.main calls display_search_results(results) on a list that is not empty
DisplaySearchCall ==
  /\ dp_pc = "idle"
  /\ \E result_list \in ResultLists : ds_results' = result_list
  /\ dp_pc' = "search_prompt"
  /\ UNCHANGED <<dc_chapters, current_page, selection, dp_ret, outside_display>>

\* the table is shown and IntPrompt.ask returns a number
DisplaySearchPrompt ==
  /\ dp_pc = "search_prompt"
  /\ \E number \in Numbers :
       LET out == display_search_results(number, ds_results)
       IN  /\ selection' = ToString(number)
           /\ dp_pc' = out.pc
           /\ dp_ret' = out.ret
  /\ UNCHANGED <<dc_chapters, current_page, ds_results, outside_display>>

DisplayNext ==
  \/ DisplayChaptersCall
  \/ DisplayChaptersPrompt
  \/ DisplaySearchCall
  \/ DisplaySearchPrompt

LifecycleNext ==
  \/ OpenChapterCall
  \/ OpenChapterTry
  \/ OpenChapterRegister
  \/ OpenChapterFallback
  \/ OpenChapterExcept
  \/ MainConfirm
  \/ MainReturn
  \/ Signal
  \/ SysExit
  \/ ReclaimExists
  \/ ReclaimRmtreeBegin
  \/ ReclaimRmtreeEnd
  \/ ReclaimClear
  \/ \E d \in Dirs : PollerStep(d)
  \/ \E d \in Dirs : ViewerRelease(d)
  \/ \E d \in Dirs : ExternalDelete(d)

vars == <<lifecycle_vars, scraper_vars, pdf_vars, viewer_vars, loop_vars, display_vars>>

\* the temp-directory lifecycle, with no scraper call in progress
\* everything but the loops taken on their own, before any call
ModulesInit == LifecycleInit /\ ScraperIdle /\ PdfIdle /\ ViewerIdle

Init == ModulesInit /\ LoopsIdle /\ DisplayIdle

Next == LifecycleNext

Spec == Init /\ [][Next]_vars

\* the scraper's functions, called one after the other, before any chapter
\* is opened
ScraperInit == Init /\ platform = "Linux"

ScraperSpec == ScraperInit /\ [][ScraperNext]_vars

\* one call of view_manhwa_as_pdf on the images of a chapter
PdfSpec == ScraperInit /\ [][PdfNext]_vars

\* the URL collection of download_chapter_images on every chapter page
\* (the page has been fetched and image_urls is still empty)
CollectInit ==
  /\ ModulesInit
  /\ platform = "Linux"
  /\ co_page \in {page \in ChapterPages : page.status = "ok"}
  /\ co_i = 0
  /\ co_urls = <<>>
  /\ DisplayIdle

CollectSpec == CollectInit /\ [][CollectImg]_vars

\* one session of the local viewer
ViewerSpec == ScraperInit /\ [][ViewerNext]_vars

\* one call of display_chapters or of display_search_results
DisplaySpec == ScraperInit /\ [][DisplayNext]_vars

\* The process stays alive: the chapter views, the pollers and the environment,
\* without signals and without main returning. The pollers are threads the
\* interpreter keeps scheduling, and their sleeps end: weak fairness of each.
AliveNext ==
  \/ OpenChapterCall
  \/ OpenChapterTry
  \/ OpenChapterRegister
  \/ OpenChapterFallback
  \/ OpenChapterExcept
  \/ MainConfirm
  \/ \E d \in Dirs : PollerStep(d)
  \/ \E d \in Dirs : ViewerRelease(d)
  \/ \E d \in Dirs : ExternalDelete(d)

AliveSpec ==
  Init /\ [][AliveNext]_vars /\ \A d \in Dirs : WF_vars(PollerStep(d))

\* ------------------------------------------------------------ the claims
Registered == Range(temp_directories)

\* the thread of d is between the end of its polling loop and its end
PollerDeleting(d) == poller[d] \in {"lsof151", "rmtree164", "dereg166"}

\* C2: when a signal arrives while N directories are registered, all N have
\* been removed from the disk by the time the handler calls sys.exit, and the
\* process then exits (it does not go on with the foreground flow).
C2_SignalRemovesAllAndExits ==
  /\ fg_pc = "sys_exit" => Range(cl_list) \cap disk = {}
  /\ signals > 0 => fg_pc \in {"cleanup", "sys_exit", "terminated"}

\* C3: reclaim is idempotent. cleanup_all_temp_dirs never raises; when it
\* returns the registry is empty (so no registered directory is on the disk);
\* a call that follows another call's return is a no-op that returns at once;
\* and on a registered directory that is already gone it deletes nothing and
\* moves on.
C3_ReclaimIdempotent ==
  [][ /\ fg_pc' # "raised"
      /\ (reclaims' # reclaims /\ reclaims' > 0) => temp_directories' = <<>>
      /\ ( /\ reclaims > 0
           /\ \/ signals' # signals
              \/ fg_pc = "sys_exit" /\ unwind = "top" /\ fg_pc' # fg_pc
              \/ fg_pc = "prompt" /\ fg_pc' \in {"cleanup", "terminated"} )
           => /\ fg_pc' # "cleanup"
              /\ reclaims' = 2
              /\ UNCHANGED <<temp_directories, disk>>
      /\ (fg_pc = "cleanup" /\ cl_pc = "exists188" /\ cl_list[cl_i] \notin disk
            /\ <<cl_pc, cl_i>>' # <<cl_pc, cl_i>> /\ signals' = signals)
           => /\ cl_pc' \in {"exists188", "clear228"}
              /\ cl_i' = cl_i + 1
              /\ UNCHANGED <<temp_directories, disk>>
    ]_vars

\* C3 witness: a call of cleanup_all_temp_dirs went through the registered
\* directories and returned, and the call after it has returned too
C3_Witness ==
  /\ reclaims = 2
  /\ opened > 0
  /\ fg_pc = "terminated"

C6_NoConcurrentDeletion ==
  \A d \in Dirs :
    ~ /\ poller[d] = "rmtree164"
      /\ fg_pc = "cleanup" /\ cl_pc = "in_rmtree222" /\ cl_list[cl_i] = d

\* C7: a failed deletion is never propagated: no exception leaves
\* cleanup_all_temp_dirs or a poller thread, cleanup_all_temp_dirs reaches its
\* clear() only after it has been through the whole snapshot, and the handler
\* gets to sys.exit with every directory of the snapshot visited.
C7_DeletionFailureSwallowed ==
  /\ fg_pc # "raised"
  /\ \A d \in Dirs : poller[d] # "raised"
  /\ (fg_pc = "cleanup" /\ cl_pc = "clear228") => cl_i = Len(cl_list) + 1
  /\ (fg_pc = "sys_exit" /\ cl_list # <<>>) => cl_i = Len(cl_list) + 1

\* C7 witness: in the signal handler's reclaim the first directory's deletion
\* has failed (it is still there) and the second directory's is under way
C7_Witness ==
  /\ fg_pc = "cleanup" /\ cl_ctx = "handler"
  /\ cl_i = 2 /\ cl_pc = "in_rmtree222"
  /\ cl_list[1] \in disk

\* C1: download_chapter_images, once the page is fetched and the URLs are
\* collected: every URL is tried whatever happened to the ones before it, the
\* payloads obtained are exactly those of the URLs whose fetch succeeded, in
\* the order of the URL list, and the function returns None if and only if
\* none was obtained (else it returns those payloads).
C1_DownloadKeepsSucceededInOrder ==
  (sc_pc = "dl_done" /\ img_i > 0) =>
    /\ Len(img_ok) = Len(image_urls)
    /\ LET got == SelectSeq([i \in 1..Len(image_urls) |-> i],
                            LAMBDA i : img_ok[i])
       IN  /\ images = [k \in 1..Len(got) |-> Payload(image_urls[got[k]])]
           /\ dl_ret.kind = "None" <=> got = <<>>
           /\ dl_ret.kind # "None" => dl_ret = ListRet(images)

\* C1 witness: the download of a first image failed, that of a later one
\* succeeded, and the function has returned a list
C1_Witness ==
  /\ sc_pc = "dl_done" /\ dl_ret.kind = "list"
  /\ \E i, j \in 1..Len(img_ok) : i < j /\ ~img_ok[i] /\ img_ok[j]

\* C8 as the specification states it: on a page where a structural selector
\* matches N entries, get_chapters returns N records, with index 1..N in list
\* order, the record of index i being the entry at DOM position N+1-i.
C8_StructuralAllEntriesReversed ==
  (sc_pc = "gc_done" /\ gc_response.status = "ok" /\ gc_response.hit > 0) =>
    LET N == Len(gc_response.items) IN
      /\ gc_ret.kind = "list"
      /\ Len(gc_ret.val) = N
      /\ \A i \in 1..N :
           /\ gc_ret.val[i].index = i
           /\ gc_ret.val[i].url = gc_response.items[N + 1 - i].href

\* C9 as the specification states it: when no selector matches and the
\* hyperlink pass finds k chapter-indicating links, get_chapters returns k
\* records, in the order of those links, with index 1..k and date "N/A".
C9_FallbackAllLinksInOrder ==
  (sc_pc = "gc_done" /\ gc_response.status = "ok" /\ gc_response.hit = 0) =>
    LET found == SelectSeq(gc_response.links, IsChapterLink) IN
      /\ gc_ret.kind = "list"
      /\ Len(gc_ret.val) = Len(found)
      /\ \A i \in 1..Len(found) :
           /\ gc_ret.val[i].index = i
           /\ gc_ret.val[i].title = Strip(found[i].text)
           /\ gc_ret.val[i].release_date = "N/A"

\* C10: search_manhwa and get_chapters never raise and always return a list;
\* get_chapters returns [] when its request fails or answers with an error
\* status, when an anchor it reads has no href, and when neither a selector
\* nor the hyperlink pass finds anything; search_manhwa returns [] when none of
\* its requests gave a page and when no step extracted a record.
C10_NeverRaiseEmptyOnFailure ==
  /\ gc_ret.kind \in {"unset", "list"}
  /\ sm_ret.kind \in {"unset", "list"}
  /\ sc_pc = "gc_done" =>
       ( ( \/ gc_response.status # "ok"
           \/ \E i \in 1..Len(gc_response.items) :
                gc_response.items[i].a /\ gc_response.items[i].href = NoAttr
           \/ \E i \in 1..Len(gc_response.links) :
                IsChapterLink(gc_response.links[i])
                  /\ gc_response.links[i].href = NoAttr
           \/ /\ gc_response.hit = 0
              /\ \A i \in 1..Len(gc_response.links) :
                   ~IsChapterLink(gc_response.links[i]) )
         => gc_ret = ListRet(<<>>) )
  /\ sc_pc = "sm_done" =>
       ( ( \/ \A i \in 1..Len(sm_log) : sm_log[i] # "ok"
           \/ results = <<>> )
         => sm_ret = ListRet(<<>>) )

\* C10 witness: search_manhwa's page request raised, its AJAX request was
\* answered with an error status, and it has returned []
C10_Witness ==
  /\ sc_pc = "sm_done"
  /\ sm_log = <<"raise", "http_error">>
  /\ sm_ret = ListRet(<<>>)

\* C11: whatever the requests of search_manhwa gave, the list it returns has
\* no two records with the same title (and neither has the list it builds).
C11_NoDuplicateTitles ==
  /\ \A i, j \in 1..Len(results) :
       i # j => results[i].title # results[j].title
  /\ sm_ret.kind = "list" =>
       \A i, j \in 1..Len(sm_ret.val) :
         i # j => sm_ret.val[i].title # sm_ret.val[j].title

\* C11 witness: a page listed the same title twice, and search_manhwa has
\* returned a non-empty list
C11_Witness ==
  /\ sc_pc = "sm_done" /\ sm_ret.kind = "list" /\ sm_ret.val # <<>>
  /\ \E k \in 1..Len(sm_steps) :
       \E i, j \in 1..Len(sm_steps[k].titles) :
         i < j /\ sm_steps[k].titles[i] = sm_steps[k].titles[j]

\* manhwa.get(key, default) as display_search_results reads a record
GetOr(value, default) == IF value = NoKey THEN default ELSE value

\* C12 as the specification states it: every record search_manhwa returns has
\* a non-empty title and a non-empty URL, and its rating and views read as a
\* located value or as the sentinel "N/A".
C12_RecordsHaveTitleAndUrl ==
  sm_ret.kind = "list" =>
    \A i \in 1..Len(sm_ret.val) :
      /\ sm_ret.val[i].title # ""
      /\ sm_ret.val[i].url \notin {"", "None"}
      /\ GetOr(sm_ret.val[i].rating, "N/A") \in {"N/A", "4.5"}
      /\ GetOr(sm_ret.val[i].views, "N/A") \in {"N/A", "10K"}

\* C13 as the specification states it: search_manhwa returns at most `limit`
\* records (none for a limit below 1), and they are the first `limit` records
\* of the de-duplicated list, in extraction order.
C13_AtMostLimitFirstRecords ==
  (sc_pc = "sm_done" /\ sm_ret.kind = "list") =>
    LET most == IF limit > 0 THEN limit ELSE 0
        k == IF most < Len(results) THEN most ELSE Len(results)
    IN  /\ Len(sm_ret.val) <= most
        /\ sm_ret.val = [i \in 1..k |-> results[i]]

\* C14: get_chapter_url never raises, and whenever the fetch raises (a
\* timeout included) or answers with a status other than 200 it returns the
\* URL it was called with, unchanged.
C14_ChapterUrlEchoedOnFailure ==
  /\ cu_ret.kind # "raised"
  /\ (sc_pc = "cu_done" /\ cu_response.status # "ok") => cu_ret = StrRet(chapter_url)

\* the fetch raised and the call returned the URL it was given
C14_Witness ==
  /\ sc_pc = "cu_done"
  /\ cu_response.status = "raise"
  /\ cu_ret = StrRet(chapter_url)
  /\ chapter_url \in ChapterUrls

\* C15: on a fetched chapter page that has a reading-mode link (a link the
\* code looks for, carrying an href), get_chapter_url returns the target of
\* such a link; on a page without one it returns the URL it was called with.
C15_ReadingModeLinkFollowed ==
  (sc_pc = "cu_done" /\ cu_response.status = "ok") =>
    LET targets == {a.href : a \in {b \in Range(cu_response.anchors) :
                      /\ b.href # NoAttr
                      /\ \/ b.class = "reading-mode"
                         \/ Contains("reader", b.href)}}
    IN  IF targets # {} THEN cu_ret.val \in targets
        ELSE cu_ret = StrRet(chapter_url)

\* C16: the document of create_pdf_from_images has exactly one page per
\* image whose embedding succeeded (page.insert_image returned), in input
\* order, each page as wide and as high as its image; an image that failed to
\* decode or to embed has no page, and the loop goes on to the last image.
C16_OnePagePerEmbeddedImage ==
  LET embedded == {i \in 1..Len(pd_log) : pd_log[i] \in {"ok", "remove"}}
  IN  /\ Len(pd_pages) = Cardinality(embedded)
      /\ \A p \in 1..Len(pd_pages) :
           /\ pd_pages[p].image \in embedded
           /\ pd_pages[p].width = pd_images[pd_pages[p].image][1]
           /\ pd_pages[p].height = pd_images[pd_pages[p].image][2]
      /\ \A p, q \in 1..Len(pd_pages) : p < q => pd_pages[p].image < pd_pages[q].image
      /\ (pd_pc # "loop" /\ pd_dir # "none") => Len(pd_log) = Len(pd_images)

\* C17: when view_manhwa_as_pdf has ended and no image of the sequence was
\* embedded, the render was reported as a failure (no document path came back
\* from create_pdf_from_images, no viewer was opened, the call returned
\* False) and the temporary directory of the render does not exist.
C17_NothingEmbeddedIsFailure ==
  (pd_pc = "viewed" /\ \A i \in 1..Len(pd_log) : pd_log[i] \notin {"ok", "remove"}) =>
    /\ pd_ret # "path"
    /\ ~vw_opened
    /\ vw_ret = "False"
    /\ pd_dir # "exists"

C19_EndedSessionLeavesNoDirectory ==
  session \in {"closed", "window_closed", "process_exit"} => ~temp_dir

\* C20: in search_manhwa a step (the primary page, the alternate page, the
\* AJAX request) is executed only when every step before it appended no
\* record, and the list returned holds records of one step only: the records
\* of `results` all come from the last step executed.
C20_LaterStepOnlyAfterEmptyEarlier ==
  /\ \A j, k \in 1..Len(sm_steps) : j < k => sm_steps[j].added = 0
  /\ Len(results) = IF sm_steps = <<>> THEN 0 ELSE sm_steps[Len(sm_steps)].added
  /\ sm_ret.kind = "list" => Range(sm_ret.val) \subseteq Range(results)

\* two steps found nothing, the third one's records were returned
C20_Witness ==
  /\ sc_pc = "sm_done"
  /\ Len(sm_steps) = 3
  /\ sm_steps[3].step = "api" /\ sm_steps[3].added > 0
  /\ sm_log[1] = "ok" /\ sm_steps[1].added = 0
  /\ sm_ret.kind = "list" /\ sm_ret.val # <<>>

C22_FirstNonEmptyAttribute ==
  LET Order(img) == <<img.data_src, img.data_lazy_src, img.src>>
      Best(img) == IF \A k \in 1..3 : Order(img)[k] = "" THEN ""
                   ELSE Order(img)[CHOOSE k \in 1..3 :
                          /\ Order(img)[k] # ""
                          /\ \A j \in 1..(k - 1) : Order(img)[j] = ""]
      Kept(img) == /\ Best(img) # ""
                   /\ \/ co_page.container
                      \/ \E token \in {"chapter", "manga", "comic"} :
                           Contains(token, Best(img))
      visited == SelectSeq(SubSeq(co_page.imgs, 1, co_i), Kept)
  IN  co_urls = [k \in 1..Len(visited) |-> Best(visited[k])]

\* the loop has gone through two elements of a reader container: the first
\* has no data-src and different data-lazy-src and src, the second has no
\* attribute at all; only the first one's data-lazy-src was collected
C22_Witness ==
  /\ co_i = 2 /\ Len(co_page.imgs) = 2 /\ co_page.container
  /\ co_page.imgs[1] = [src |-> "https://cdn/logo.png", data_src |-> "",
                        data_lazy_src |-> "https://cdn/chapter/1.jpg"]
  /\ co_page.imgs[2] = [src |-> "", data_src |-> "", data_lazy_src |-> ""]
  /\ co_urls = <<"https://cdn/chapter/1.jpg">>

\* C23: whenever the viewer has laid out an image, its width before zoom is
\* the cap if its native width exceeds the cap, 300 if its native width is
\* below 300, and its native width otherwise; its height before zoom is the
\* native height scaled by the same factor (to the pixel); the size shown is
\* that size multiplied by the current zoom level (to the pixel); and before
\* zoom the image is neither wider than the cap nor narrower than 300.
C23_DisplayWidthCappedAndFloored ==
  session = "open" =>
    LET w == img_size[1]
        h == img_size[2]
        cap == display.cap
        new == display.new
        Within(a, b, tol) == a - b <= tol /\ b - a <= tol
    IN  /\ new[1] = IF w > cap THEN cap ELSE IF w < 300 THEN 300 ELSE w
        /\ Within(new[2] * w, h * new[1], w)
        /\ \A k \in 1..2 : Within(10 * display.final[k], new[k] * zoom_level[1], 10)
        /\ new[1] <= cap /\ new[1] >= 300

\* an image wider than the cap of a window at its initial size, shown at a
\* zoom level other than the initial one, and a narrow image scaled up
C23_Witness ==
  /\ session = "open"
  /\ zoom_level = <<12, 4>>
  /\ \/ /\ img_size = <<800, 1200>>
        /\ display = [cap |-> 750, new |-> <<750, 1125>>, final |-> <<900, 1350>>]
     \/ /\ img_size = <<250, 400>>
        /\ display.new = <<300, 480>>

\* C24: lock polling is a background task. open_chapter returns to the prompt
\* in the step that starts the thread, with the thread at its grace delay and
\* no probe made; while a thread is at its grace delay it has made no probe,
\* and the only thing it does next is to end that delay, deleting nothing;
\* after that a probe round is entered only from the grace delay or from the
\* interval sleep, and each round that does not end the loop is followed by
\* the interval sleep, which leads to the next round.
C24_PollingInBackgroundAfterGrace ==
  [][/\ (fg_pc = "oc_register" /\ fg_pc' = Returns(TRUE)) =>
          /\ poller'[cur_dir] = "sleep108"
          /\ can_delete'[cur_dir] = "unset"
     /\ \A d \in Dirs :
          /\ poller[d] = "sleep108" => can_delete[d] = "unset"
          /\ (poller[d] = "sleep108" /\ poller'[d] # "sleep108") =>
               /\ poller'[d] \in {"round113", "none"}
               /\ poller'[d] = "round113" =>
                    disk' = disk /\ can_delete'[d] = "unset"
          /\ (poller'[d] = "round113" /\ poller[d] # "round113") =>
               poller[d] \in {"sleep108", "wait140"}
          /\ (poller[d] = "round113" /\ poller'[d] # "round113") =>
               /\ disk' = disk
               /\ poller'[d] \in {"wait140", "exists143", "none"}
               /\ poller'[d] = "wait140" => can_delete'[d] = "False"
          /\ (poller[d] = "wait140" /\ poller'[d] # "wait140") =>
               poller'[d] \in {"round113", "none"} /\ disk' = disk
    ]_vars

\* the foreground is in its second open_chapter while the thread of the first
\* directory, whose PDF is locked, sleeps between two probe rounds, and the
\* directory is still there and registered
C24_Witness ==
  /\ fg_pc = "oc_try" /\ opened = 2
  /\ poller[1] = "wait140" /\ can_delete[1] = "False"
  /\ 1 \in disk /\ 1 \in Range(temp_directories)

\* where the main thread is inside open_chapter, and after it returned
InOpenChapter == {"oc_try", "oc_register", "oc_fallback", "oc_except"}
AfterOpenChapter == {Returns(TRUE), Returns(FALSE)}

\* C25: when the images cannot be downloaded or the document cannot be created
\* or opened, open_chapter goes on to a browser attempt; from there until it
\* returns it registers no directory and starts no thread, so the directory
\* of that call is neither registered nor polled when it returns; it returns
\* False only out of the last-resort browser attempt (when that raised, or
\* when it was cut short by the exit request of a signal); and nothing but a
\* signal takes the main thread out of open_chapter other than a return.
C25_FailureFallsBackToBrowser ==
  [][/\ (fg_pc = "oc_try" /\ fg_pc' \notin {"oc_try", "oc_register"} /\ signals' = signals) =>
          /\ fg_pc' \in {"oc_fallback", "oc_except"}
          /\ UNCHANGED <<temp_directories, poller, cur_dir>>
     /\ (fg_pc \in {"oc_fallback", "oc_except"} /\ fg_pc' # fg_pc /\ signals' = signals) =>
          /\ fg_pc' \in {"oc_except"} \cup AfterOpenChapter
          /\ UNCHANGED <<temp_directories, poller>>
          /\ fg_pc' \in AfterOpenChapter =>
               /\ opened \notin Range(temp_directories')
               /\ poller'[opened] = "none"
     /\ (fg_pc' = Returns(FALSE) /\ fg_pc # fg_pc') =>
          \/ fg_pc = "oc_except"
          \/ fg_pc = "sys_exit" /\ unwind = "swallow"
     /\ (fg_pc \in InOpenChapter /\ fg_pc' \notin InOpenChapter \cup AfterOpenChapter) =>
          signals' = signals + 1
    ]_vars

\* open_chapter has returned False from its second call, whose PDF attempt
\* failed, while the directory of the first call is registered
C25_Witness ==
  /\ fg_pc = Returns(FALSE) /\ opened = 2 /\ signals = 0
  /\ temp_directories = <<1>>
  /\ poller[2] = "none"

\* C26: whenever view_manhwa_as_pdf has returned (False, None), the directory
\* the call created, if it created one, is gone, and so is every file the
\* call wrote: the temporary JPEGs, the PDF and the marker.
C26_FailedViewLeavesNothing ==
  (pd_pc = "viewed" /\ vw_ret = "False") => (pd_dir # "exists" /\ pd_files = {})

\* the document was created, with a temporary JPEG left behind by the image
\* loop, the system viewer could not be opened, and (False, None) came back
C26_Witness ==
  /\ pd_pc = "viewed" /\ vw_ret = "False"
  /\ pd_ret = "path" /\ ~vw_opened
  /\ "remove" \in Range(pd_log)
  /\ pd_dir = "removed"

\* C30: once create_pdf_from_images has returned the path of the PDF, the
\* directory holds no temporary JPEG temp_img_<idx>.jpg, for any image of the
\* sequence, embedded or not.
C30_NoTemporaryJpegLeft ==
  (pd_pc \in {"created", "viewed"} /\ pd_ret = "path") =>
    \A idx \in 0..(Len(pd_images) - 1) : TempImg(idx) \notin pd_files

\* C27: as long as cleanup_all_temp_dirs has not been entered, every temp
\* directory that a chapter view created and that is still on disk is in the
\* registry, so that a signal arriving then finds it there.
C27_ExistingDirectoryRegistered ==
  cl_ctx = "none" => \A d \in disk : d \in Registered

\* C28: at the display_chapters prompt, entering the number shown in the #
\* column for a chapter makes the function return the list position of that
\* same chapter.
C28_ShownNumberSelectsThatChapter ==
  \A i \in 1..Len(dc_chapters) :
    (dp_pc \in {"chapters_prompt", "returned"}
       /\ selection = ToString(dc_chapters[i].index))
      => (dp_pc = "returned" /\ dp_ret = IndexRet(i - 1))

\* the numbers display_chapters accepts for a list, as the user types them
ValidNumbers(chapters) == {ToString(k) : k \in 1..Len(chapters)}

====
